---- MODULE Spec2Model ----
(***************************************************************************)
(* A model of adafruit_display_shapes: the rolling sample buffer            *)
(* (_CyclicBuffer), the single sparkline (Sparkline) and the multi-line     *)
(* sparkline (MultiSparkline).                                              *)
(*                                                                          *)
(* Python values are encoded as sequences so that values of different       *)
(* Python types can share a list: None is <<>>, the number n is <<n>> and   *)
(* the tuple (x, y) is <<x, y>>.  Samples are integers; every quotient the  *)
(* code takes is kept as an exact fraction and int() truncates it toward    *)
(* zero, as Python's int() does.                                            *)
(***************************************************************************)
EXTENDS Integers, Sequences, FiniteSets, TLC

VARIABLES
    cbuf,      \* a _CyclicBuffer driven directly: [_buffer, _start, _end]
    fifo,      \* reference queue: the values pushed and not yet popped
    ret,       \* the last call on cbuf: [op, raised, result, oldest]
    spark,     \* a Sparkline object
    hist,      \* non-None samples given to spark since construction / clear_values
    call,      \* the last call on spark: [op, value, raised]
    multi,     \* a MultiSparkline object
    mcall,     \* the last call on multi: [op, given, update, raised], given the
               \* lines whose entry in the list of add_values was not None, or
               \* the lines update_line was asked to update
    proj,      \* one _add_point call on its own: [op, height, y_top, y_bottom, value, y, m_y]
    clip,      \* one pass of the loop of update on its own, for a pair of samples
    twin,      \* a second Sparkline, given the samples of spark with update=False
    ras,       \* one Polygon._line_on call on its own, in both directions
    rect       \* a SimpleRoundRect object

vars == <<cbuf, fifo, ret, spark, hist, call, multi, mcall, proj, clip, twin, ras, rect>>

----------------------------------------------------------------------------
(* Bounds of the model *)

MaxCap == 3        \* capacities 1..MaxCap of the directly driven buffer
MaxVal == 3        \* values 1..MaxVal pushed on the directly driven buffer
MaxItems == 2      \* max_items of a Sparkline is in 2..MaxItems
MaxWidth == 3      \* the width of a Sparkline and of a MultiSparkline
MaxHeight == 3     \* their height
FixedMin == 0      \* the y_min of a series with a fixed lower bound
FixedMax == 1      \* the y_max of a series with a fixed upper bound
MaxProjHeight == 4 \* heights 1..MaxProjHeight of the projection on its own
MaxProjValue == 3  \* its bounds and values are in -MaxProjValue..MaxProjValue

Samples == {0 - 1, 0, 1}     \* the samples given to a Sparkline
MultiLines == {1, 2}         \* the numbers of lines of a MultiSparkline
MultiItems == {2}            \* its max_items
FirstSamples == {0 - 1, 1}   \* the samples given to its first line
OtherSamples == {1}          \* the samples given to its other lines

----------------------------------------------------------------------------
(* Python values *)

PyNone == <<>>
Num(n) == <<n>>
N(o) == o[1]

Min(S) == CHOOSE m \in S : \A k \in S : m <= k
Max(S) == CHOOSE m \in S : \A k \in S : m >= k
Range(s) == {s[i] : i \in 1..Len(s)}

\* the list f[1], ..., f[n]
RECURSIVE ListN(_, _)
ListN(f, n) == IF n = 0 THEN <<>> ELSE Append(ListN(f, n - 1), f[n])

List(f) == ListN(f, Cardinality(DOMAIN f))

----------------------------------------------------------------------------
(* class _CyclicBuffer *)

CyclicBuffer(size, fill) ==
    [_buffer |-> List([i \in 1..size |-> fill]), _start |-> 0, _end |-> 0]

len(b) == b._end - b._start

\* push without the capacity check
push_unchecked(b, value) ==
    [self   |-> [b EXCEPT !._buffer[(b._end % Len(b._buffer)) + 1] = value,
                          !._end = @ + 1],
     raised |-> "None"]

push(b, value) ==
    IF len(b) = Len(b._buffer)
    THEN [self |-> b, raised |-> "RuntimeError"]
    ELSE [self   |-> [b EXCEPT !._buffer[(b._end % Len(b._buffer)) + 1] = value,
                               !._end = @ + 1],
          raised |-> "None"]

\* pop without the wrap correction of the cursors
pop_nowrap(b) ==
    IF len(b) = 0
    THEN [self |-> b, raised |-> "RuntimeError", result |-> PyNone]
    ELSE [self   |-> [b EXCEPT !._start = @ + 1],
          raised |-> "None",
          result |-> b._buffer[(b._start % Len(b._buffer)) + 1]]

pop(b) ==
    IF len(b) = 0
    THEN [self |-> b, raised |-> "RuntimeError", result |-> PyNone]
    ELSE LET size == Len(b._buffer)
             start == b._start + 1
         IN  [self   |-> IF start = size
                         THEN [b EXCEPT !._start = start - size,
                                        !._end = @ - size]
                         ELSE [b EXCEPT !._start = start],
              raised |-> "None",
              result |-> b._buffer[b._start + 1]]

clear(b) == [b EXCEPT !._start = 0, !._end = 0]

\* values with the run test start <= end in place of start < end
values_le(b) ==
    IF len(b) = 0
    THEN <<>>
    ELSE LET start == b._start
             end == b._end % Len(b._buffer)
         IN  IF start <= end
             THEN SubSeq(b._buffer, start + 1, end)
             ELSE SubSeq(b._buffer, start + 1, Len(b._buffer))
                      \o SubSeq(b._buffer, 1, end)

values(b) ==
    IF len(b) = 0
    THEN <<>>
    ELSE LET start == b._start
             end == b._end % Len(b._buffer)
         IN  IF start < end
             THEN SubSeq(b._buffer, start + 1, end)
             ELSE SubSeq(b._buffer, start + 1, Len(b._buffer))
                      \o SubSeq(b._buffer, 1, end)

----------------------------------------------------------------------------
(* The buffer driven directly by push, pop and clear calls *)

Idle == [op |-> "idle"]

BufInit ==
    /\ cbuf \in {CyclicBuffer(size, fill) : size \in 1..MaxCap,
                                            fill \in {PyNone, Num(0)}}
    /\ fifo = <<>>
    /\ ret = [op |-> "init", raised |-> "None", result |-> PyNone, oldest |-> PyNone]
    /\ spark = PyNone /\ hist = <<>> /\ call = Idle
    /\ multi = PyNone /\ mcall = Idle
    /\ proj = Idle
    /\ clip = Idle /\ twin = PyNone /\ ras = Idle /\ rect = Idle

BufPush ==
    \E v \in 1..MaxVal :
        LET r == push(cbuf, Num(v))
        IN  /\ cbuf' = r.self
            /\ fifo' = IF Len(fifo) < Len(cbuf._buffer)
                       THEN Append(fifo, Num(v)) ELSE fifo
            /\ ret' = [op |-> "push", raised |-> r.raised,
                       result |-> PyNone, oldest |-> PyNone]
            /\ UNCHANGED <<spark, hist, call, multi, mcall, proj, clip, twin, ras, rect>>

BufPop ==
    LET r == pop(cbuf)
    IN  /\ cbuf' = r.self
        /\ fifo' = IF fifo # <<>> THEN Tail(fifo) ELSE fifo
        /\ ret' = [op |-> "pop", raised |-> r.raised, result |-> r.result,
                   oldest |-> IF fifo # <<>> THEN Head(fifo) ELSE PyNone]
        /\ UNCHANGED <<spark, hist, call, multi, mcall, proj, clip, twin, ras, rect>>

BufClear ==
    /\ cbuf' = clear(cbuf)
    /\ fifo' = <<>>
    /\ ret' = [op |-> "clear", raised |-> "None",
               result |-> PyNone, oldest |-> PyNone]
    /\ UNCHANGED <<spark, hist, call, multi, mcall, proj, clip, twin, ras, rect>>

BufNext == BufPush \/ BufPop \/ BufClear

SpecBuf == BufInit /\ [][BufNext]_vars

----------------------------------------------------------------------------
(* Arithmetic of the Python expressions *)

Abs(a) == IF a < 0 THEN 0 - a ELSE a

\* int(a / b) for b # 0: the exact quotient truncated toward zero
TruncDiv(a, b) ==
    LET q == Abs(a) \div Abs(b)
    IN  IF (a < 0) # (b < 0) THEN 0 - q ELSE q

----------------------------------------------------------------------------
(* Python floats (IEEE 754 binary64) as far as the x of a point needs them: *)
(* a positive float is [m |-> <<m1, m2, m3>>, e |-> e], its 53 bits cut     *)
(* into 17 + 18 + 18 with the first bit of m1 set, and e the exponent of    *)
(* that first bit. The operands stay below 2^12, so that no step exceeds    *)
(* 2^31. An intermediate result is bound as the only element of a set.      *)

Limb == 2 ^ 18

\* the only element of a set of one element
The(S) == CHOOSE x \in S : TRUE

\* the three limbs plus one in the last place; the exponent goes up when
\* every bit was set
float_next(m, e) ==
    IF m[3] + 1 < Limb THEN [m |-> <<m[1], m[2], m[3] + 1>>, e |-> e]
    ELSE IF m[2] + 1 < Limb THEN [m |-> <<m[1], m[2] + 1, 0>>, e |-> e]
    ELSE IF m[1] + 1 < 2 ^ 17 THEN [m |-> <<m[1] + 1, 0, 0>>, e |-> e]
    ELSE [m |-> <<2 ^ 16, 0, 0>>, e |-> e + 1]

\* round to nearest, ties to even: guard is the first bit that was cut off,
\* sticky says that a later one was set
round_to_nearest(m, e, guard, sticky) ==
    IF guard /\ (sticky \/ m[3] % 2 = 1) THEN float_next(m, e)
    ELSE [m |-> m, e |-> e]

\* the quotient n / d of 1 <= n / d < 2 with the exponent e
float_quotient(n, d, e) ==
    The({The({The({round_to_nearest(<<2 ^ 16 + (r0 * 2 ^ 16) \div d,
                                      (r1 * Limb) \div d,
                                      (r2 * Limb) \div d>>,
                                    e, 2 * r3 >= d, 2 * r3 # d /\ r3 # 0) :
                       r3 \in {(r2 * Limb) % d}}) :
                  r2 \in {(r1 * Limb) % d}}) :
             r0 \in {n - d}, r1 \in {((n - d) * 2 ^ 16) % d}})

\* a / b for integers a > 0 and b > 0
float_div(a, b) ==
    The({IF e >= 0 THEN float_quotient(a, b * 2 ^ e, e)
         ELSE float_quotient(a * 2 ^ (0 - e), b, e) :
             e \in {e \in -12..12 :
                       IF e >= 0 THEN b * 2 ^ e <= a /\ a < b * 2 ^ (e + 1)
                       ELSE b <= a * 2 ^ (0 - e) /\ a * 2 ^ (0 - e - 1) < b}})

\* the product p1 * 2^36 + d2 * 2^18 + d3 of 53 + s bits, as a float
float_product(p1, d2, d3, s, e) ==
    IF s = 0 THEN [m |-> <<p1, d2, d3>>, e |-> e]
    ELSE round_to_nearest(<<p1 \div 2 ^ s,
                            ((p1 % 2 ^ s) * Limb + d2) \div 2 ^ s,
                            ((d2 % 2 ^ s) * Limb + d3) \div 2 ^ s>>,
                          e + s,
                          d3 % 2 ^ s >= 2 ^ (s - 1),
                          (d3 % 2 ^ s) % 2 ^ (s - 1) # 0)

\* f * k for a float f > 0 and an integer k > 0
float_mul(f, k) ==
    The({The({The({float_product(p1, p2 % Limb, p3 % Limb, s, f.e) :
                       s \in {s \in 0..13 : 2 ^ (16 + s) <= p1 /\ p1 < 2 ^ (17 + s)}}) :
                  p1 \in {f.m[1] * k + p2 \div Limb}}) :
             p3 \in {f.m[3] * k}, p2 \in {f.m[2] * k + (f.m[3] * k) \div Limb}})

\* int(f) for a float f > 0 below 2^17
float_int(f) == IF f.e < 0 THEN 0 ELSE f.m[1] \div 2 ^ (16 - f.e)

\* int(xpitch * count), xpitch being the float (width - 1) / (n - 1) kept as
\* the pair of its operands; a quotient that is an integer is exact, and so
\* is its product with count
xpos(xpitch, count) ==
    IF xpitch[1] % xpitch[2] = 0 THEN (xpitch[1] \div xpitch[2]) * count
    ELSE IF count = 0 THEN 0
    ELSE The({float_int(float_mul(f, count)) :
                 f \in {float_div(xpitch[1], xpitch[2])}})

----------------------------------------------------------------------------
(* displayio.Bitmap as the shapes use it: fill and bitmap[x, y] = color *)

Bitmap(width, height) ==
    [width |-> width, height |-> height,
     px |-> [c \in (0..(width - 1)) \X (0..(height - 1)) |-> 0]]

fill(bitmap, value) ==
    [bitmap EXCEPT !.px = [c \in DOMAIN bitmap.px |-> value]]

OnBitmap(bitmap, c) ==
    /\ 0 <= c[1] /\ c[1] < bitmap.width
    /\ 0 <= c[2] /\ c[2] < bitmap.height

\* bitmap[x, y] = color for the coordinates of cs in order; the first
\* coordinate off the bitmap raises and ends the writes
RECURSIVE SetPixels(_, _, _)
SetPixels(bitmap, cs, color) ==
    IF cs = <<>>
    THEN [bitmap |-> bitmap, raised |-> "None"]
    ELSE IF ~OnBitmap(bitmap, Head(cs))
         THEN [bitmap |-> bitmap, raised |-> "IndexError"]
         ELSE SetPixels([bitmap EXCEPT !.px[Head(cs)] = color], Tail(cs), color)

----------------------------------------------------------------------------
(* class Polygon: draw and _line_on *)

\* the loop of the general case over range(x0, x1) in place of range(x0, x1 + 1)
RECURSIVE LineSteps_short(_, _, _, _, _, _, _, _)
LineSteps_short(x, x1, y0, err2, dx, dy, ystep, steep) ==
    IF x >= x1
    THEN <<>>
    ELSE LET e == err2 - 2 * dy
         IN  <<IF steep THEN <<y0, x>> ELSE <<x, y0>>>>
                 \o LineSteps_short(x + 1, x1,
                                    IF e < 0 THEN y0 + ystep ELSE y0,
                                    IF e < 0 THEN e + 2 * dx ELSE e,
                                    dx, dy, ystep, steep)

\* the general case of _line_on from column x on, with err2 = 2 * err
RECURSIVE LineSteps(_, _, _, _, _, _, _, _)
LineSteps(x, x1, y0, err2, dx, dy, ystep, steep) ==
    IF x > x1
    THEN <<>>
    ELSE LET e == err2 - 2 * dy
         IN  <<IF steep THEN <<y0, x>> ELSE <<x, y0>>>>
                 \o LineSteps(x + 1, x1,
                              IF e < 0 THEN y0 + ystep ELSE y0,
                              IF e < 0 THEN e + 2 * dx ELSE e,
                              dx, dy, ystep, steep)

\* the coordinates _line_on writes, without the swap that makes x0 <= x1 in
\* the general case
LinePixels_noswap(p0, p1) ==
    IF p0[1] = p1[1]
    THEN LET lo == IF p0[2] > p1[2] THEN p1[2] ELSE p0[2]
             hi == IF p0[2] > p1[2] THEN p0[2] ELSE p1[2]
         IN  List([k \in 1..(hi - lo + 1) |-> <<p0[1], lo + k - 1>>])
    ELSE IF p0[2] = p1[2]
    THEN LET lo == IF p0[1] > p1[1] THEN p1[1] ELSE p0[1]
             hi == IF p0[1] > p1[1] THEN p0[1] ELSE p1[1]
         IN  List([k \in 1..(hi - lo + 1) |-> <<lo + k - 1, p0[2]>>])
    ELSE LET steep == Abs(p1[2] - p0[2]) > Abs(p1[1] - p0[1])
             b0 == IF steep THEN <<p0[2], p0[1]>> ELSE p0
             b1 == IF steep THEN <<p1[2], p1[1]>> ELSE p1
             dx == b1[1] - b0[1]
             dy == Abs(b1[2] - b0[2])
             ystep == IF b0[2] < b1[2] THEN 1 ELSE 0 - 1
         IN  LineSteps(b0[1], b1[1], b0[2], dx, dx, dy, ystep, steep)

\* the coordinates _line_on writes, in the order it writes them
LinePixels(p0, p1) ==
    IF p0[1] = p1[1]
    THEN LET lo == IF p0[2] > p1[2] THEN p1[2] ELSE p0[2]
             hi == IF p0[2] > p1[2] THEN p0[2] ELSE p1[2]
         IN  List([k \in 1..(hi - lo + 1) |-> <<p0[1], lo + k - 1>>])
    ELSE IF p0[2] = p1[2]
    THEN LET lo == IF p0[1] > p1[1] THEN p1[1] ELSE p0[1]
             hi == IF p0[1] > p1[1] THEN p0[1] ELSE p1[1]
         IN  List([k \in 1..(hi - lo + 1) |-> <<lo + k - 1, p0[2]>>])
    ELSE LET steep == Abs(p1[2] - p0[2]) > Abs(p1[1] - p0[1])
             a0 == IF steep THEN <<p0[2], p0[1]>> ELSE p0
             a1 == IF steep THEN <<p1[2], p1[1]>> ELSE p1
             b0 == IF a0[1] > a1[1] THEN a1 ELSE a0
             b1 == IF a0[1] > a1[1] THEN a0 ELSE a1
             dx == b1[1] - b0[1]
             dy == Abs(b1[2] - b0[2])
             ystep == IF b0[2] < b1[2] THEN 1 ELSE 0 - 1
         IN  LineSteps(b0[1], b1[1], b0[2], dx, dx, dy, ystep, steep)

line_on(bitmap, p0, p1, color) == SetPixels(bitmap, LinePixels(p0, p1), color)

\* the loop of Polygon.draw from the pair (index, index + 1) on
RECURSIVE DrawFrom(_, _, _, _)
DrawFrom(bitmap, points, index, color_id) ==
    IF index >= Len(points)
    THEN [bitmap |-> bitmap, raised |-> "None"]
    ELSE LET r == line_on(bitmap, points[index], points[index + 1], color_id)
         IN  IF r.raised # "None"
             THEN r
             ELSE DrawFrom(r.bitmap, points, index + 1, color_id)

draw(bitmap, points, color_id, close) ==
    IF close /\ points = <<>>
    THEN [bitmap |-> bitmap, raised |-> "IndexError"]
    ELSE DrawFrom(bitmap, IF close THEN Append(points, points[1]) ELSE points,
                  1, color_id)

----------------------------------------------------------------------------
(* class Sparkline *)

LINE_COLOR == 1

\* min() and max() of a non-empty list of numbers
PyMin(vs) == Num(Min({N(v) : v \in Range(vs)}))
PyMax(vs) == Num(Max({N(v) : v \in Range(vs)}))

\* truth value of a bound: None and 0 are both false
Truthy(o) == o # PyNone /\ N(o) # 0

Sparkline(width, height, max_items, dyn_xpitch, y_min, y_max) ==
    [class      |-> "Sparkline",
     _max_items |-> max_items,
     _buffer    |-> CyclicBuffer(max_items, PyNone),
     dyn_xpitch |-> dyn_xpitch,
     _xpitch    |-> IF dyn_xpitch THEN PyNone ELSE <<width - 1, max_items - 1>>,
     y_min      |-> y_min,
     y_max      |-> y_max,
     y_bottom   |-> y_min,
     y_top      |-> y_max,
     _points    |-> <<>>,
     _bitmap    |-> Bitmap(width, height)]

clear_values(s) ==
    [s EXCEPT !._bitmap = fill(s._bitmap, 0), !._buffer = clear(s._buffer)]

\* the pixel row with int(self.height) for a degenerate range
row_full_height(height, y_top, y_bottom, value) ==
    IF y_top = y_bottom
    THEN height
    ELSE TruncDiv((height - 1) * (N(y_top) - N(value)), N(y_top) - N(y_bottom))

\* the pixel row measured from y_bottom, so that rows grow with the value
row_from_bottom(height, y_top, y_bottom, value) ==
    IF y_top = y_bottom
    THEN height \div 2
    ELSE TruncDiv((height - 1) * (N(value) - N(y_bottom)), N(y_top) - N(y_bottom))

\* the pixel row of a value; the fractions are exact and int() truncates
row(height, y_top, y_bottom, value) ==
    IF y_top = y_bottom
    THEN height \div 2
    ELSE TruncDiv((height - 1) * (N(y_top) - N(value)), N(y_top) - N(y_bottom))

_add_point(s, x, value) ==
    IF s.y_top # s.y_bottom /\ (s.y_top = PyNone \/ s.y_bottom = PyNone)
    THEN [self |-> s, raised |-> "TypeError"]
    ELSE [self   |-> [s EXCEPT !._points =
                         Append(@, <<x, row(s._bitmap.height, s.y_top, s.y_bottom, value)>>)],
          raised |-> "None"]

\* int() of the x at which the line (x_1, y_1)-(x_2, y_2) meets y = horizontal_y
_xintercept(x_1, y_1, x_2, y_2, horizontal_y) ==
    IF x_2 = x_1
    THEN [raised |-> "ZeroDivisionError", result |-> PyNone]
    ELSE IF y_2 = y_1
         THEN IF y_1 # horizontal_y
              THEN [raised |-> "None", result |-> PyNone]
              ELSE [raised |-> "ZeroDivisionError", result |-> PyNone]
         ELSE [raised |-> "None",
               result |-> Num(TruncDiv(x_1 * (y_2 - y_1)
                                           + (horizontal_y - y_1) * (x_2 - x_1),
                                       y_2 - y_1))]

_draw(s) ==
    LET r == draw(fill(s._bitmap, 0), s._points, LINE_COLOR, FALSE)
    IN  [self |-> [s EXCEPT !._bitmap = r.bitmap], raised |-> r.raised]

\* the test for a pair in range, with < in place of <=
both_in_range_open(bottom, top, lv, v) ==
    (bottom < lv /\ lv < top) /\ (bottom < v /\ v < top)

\* both points are in range
both_in_range(bottom, top, lv, v) ==
    (bottom <= lv /\ lv <= top) /\ (bottom <= v /\ v <= top)

\* both points are on the same side out of range
same_side_out(bottom, top, lv, v) ==
    (lv > top /\ v > top) \/ (lv < bottom /\ v < bottom)

\* one pass of the loop of update: the sample at index count
plot(s, xpitch, count, last_value, value) ==
    IF count = 0
    THEN _add_point(s, 0, value)
    ELSE LET x == xpos(xpitch, count)
             last_x == xpos(xpitch, count - 1)
             bottom == N(s.y_bottom)
             top == N(s.y_top)
             v == N(value)
             lv == N(last_value)
         IN  IF s.y_bottom = PyNone \/ s.y_top = PyNone
             THEN [self |-> s, raised |-> "TypeError"]
             ELSE IF both_in_range(bottom, top, lv, v)
             THEN _add_point(s, x, value)
             ELSE IF same_side_out(bottom, top, lv, v)
             THEN [self |-> s, raised |-> "None"]
             ELSE LET xint_bottom == _xintercept(last_x, lv, x, v, bottom)
                      xint_top == _xintercept(last_x, lv, x, v, top)
                  IN  IF xint_bottom.raised # "None"
                      THEN [self |-> s, raised |-> xint_bottom.raised]
                      ELSE IF xint_top.raised # "None"
                      THEN [self |-> s, raised |-> xint_top.raised]
                      ELSE IF xint_bottom.result = PyNone \/ xint_top.result = PyNone
                      THEN [self |-> s, raised |-> "None"]
                      ELSE IF v > lv
                           THEN IF N(xint_top.result) <= x
                                THEN _add_point(s, N(xint_top.result), s.y_top)
                                ELSE _add_point(s, x, value)
                           ELSE IF N(xint_bottom.result) <= x
                                THEN _add_point(s, N(xint_bottom.result), s.y_bottom)
                                ELSE _add_point(s, x, value)

\* the loop of update from the sample at index count on
RECURSIVE PlotFrom(_, _, _, _)
PlotFrom(s, xpitch, vals, count) ==
    IF count >= Len(vals)
    THEN [self |-> s, raised |-> "None"]
    ELSE LET r == plot(s, xpitch, count,
                       IF count = 0 THEN PyNone ELSE vals[count], vals[count + 1])
         IN  IF r.raised # "None"
             THEN r
             ELSE PlotFrom(r.self, xpitch, vals, count + 1)

\* update without the early return for fewer than two samples
update_no_bail(s) ==
    LET n_points == len(s._buffer)
        xpitch == IF s.dyn_xpitch
                  THEN <<s._bitmap.width - 1, n_points - 1>>
                  ELSE s._xpitch
        r == PlotFrom([s EXCEPT !._points = <<>>], xpitch, values(s._buffer), 0)
    IN  IF s.dyn_xpitch /\ n_points = 1
        THEN [self |-> s, raised |-> "ZeroDivisionError"]
        ELSE IF r.raised # "None" THEN r ELSE _draw(r.self)

update(s) ==
    LET n_points == len(s._buffer)
    IN  IF n_points < 2
        THEN [self |-> s, raised |-> "None"]
        ELSE LET xpitch == IF s.dyn_xpitch
                           THEN <<s._bitmap.width - 1, n_points - 1>>
                           ELSE s._xpitch
                 r == PlotFrom([s EXCEPT !._points = <<>>], xpitch,
                               values(s._buffer), 0)
             IN  IF r.raised # "None" THEN r ELSE _draw(r.self)

\* the test of add_value for a full list, with > in place of >=
is_full_gt(s) == len(s._buffer) > s._max_items

is_full(s) == len(s._buffer) >= s._max_items

\* the eviction of add_value: the oldest sample is popped and each auto bound
\* that equals it is rescanned over the samples that remain
evict(s) ==
    LET p == pop(s._buffer)
        s1 == [s EXCEPT !._buffer = p.self]
        rest == values(p.self)
        scan_bottom == s.y_min = PyNone /\ p.result = s.y_bottom
        s2 == IF scan_bottom /\ rest # <<>>
              THEN [s1 EXCEPT !.y_bottom = PyMin(rest)] ELSE s1
        scan_top == s.y_max = PyNone /\ p.result = s.y_top
    IN  IF p.raised # "None"
        THEN [self |-> s, raised |-> p.raised]
        ELSE IF scan_bottom /\ rest = <<>>
        THEN [self |-> s1, raised |-> "ValueError"]
        ELSE IF scan_top /\ rest = <<>>
        THEN [self |-> s2, raised |-> "ValueError"]
        ELSE [self   |-> IF scan_top THEN [s2 EXCEPT !.y_top = PyMax(rest)] ELSE s2,
              raised |-> "None"]

\* the running bounds of add_value without the tests for an auto bound
track_fixed_too(s, value) ==
    [s EXCEPT !.y_bottom = IF ~Truthy(@) THEN value
                           ELSE Num(Min({N(value), N(@)})),
              !.y_top = IF ~Truthy(@) THEN value
                        ELSE Num(Max({N(value), N(@)}))]

\* the running bounds of add_value after the push
track(s, value) ==
    [s EXCEPT !.y_bottom = IF s.y_min # PyNone THEN @
                           ELSE IF ~Truthy(@) THEN value
                           ELSE Num(Min({N(value), N(@)})),
              !.y_top = IF s.y_max # PyNone THEN @
                        ELSE IF ~Truthy(@) THEN value
                        ELSE Num(Max({N(value), N(@)}))]

\* add_value of None, with the redraw moved out of the test for None
absent_redraws(s, update_) ==
    IF update_ THEN update(s) ELSE [self |-> s, raised |-> "None"]

\* add_value of None: nothing is done, whatever update is
absent(s, update_) == [self |-> s, raised |-> "None"]

add_value(s, value, update_) ==
    IF value = PyNone
    THEN absent(s, update_)
    ELSE LET e == IF is_full(s) THEN evict(s) ELSE [self |-> s, raised |-> "None"]
             p == push(e.self._buffer, value)
             s3 == track([e.self EXCEPT !._buffer = p.self], value)
         IN  IF e.raised # "None"
             THEN e
             ELSE IF p.raised # "None"
             THEN [self |-> e.self, raised |-> p.raised]
             ELSE IF update_ THEN update(s3) ELSE [self |-> s3, raised |-> "None"]

----------------------------------------------------------------------------
(* class MultiSparkline.  Line i of the code is index i + 1 of the lists.   *)
(* Its _CyclicBuffer, _xintercept and row computation are the text of       *)
(* sparkline.py again, so the operators above stand for both copies; its    *)
(* buffers start filled with 0.0 instead of None.                           *)

MultiSparkline(width, height, max_items, lines, dyn_xpitch, y_mins, y_maxs) ==
    [class      |-> "MultiSparkline",
     _max_items |-> max_items,
     _lines     |-> lines,
     _buffers   |-> List([i \in 1..lines |-> CyclicBuffer(max_items, Num(0))]),
     _points    |-> List([i \in 1..lines |-> CyclicBuffer(max_items, Num(0))]),
     dyn_xpitch |-> dyn_xpitch,
     _xpitch    |-> IF dyn_xpitch THEN PyNone ELSE <<width - 1, max_items - 1>>,
     y_mins     |-> IF y_mins = PyNone THEN List([i \in 1..lines |-> PyNone]) ELSE y_mins,
     y_maxs     |-> IF y_maxs = PyNone THEN List([i \in 1..lines |-> PyNone]) ELSE y_maxs,
     y_bottoms  |-> IF y_mins = PyNone THEN List([i \in 1..lines |-> PyNone]) ELSE y_mins,
     y_tops     |-> IF y_maxs = PyNone THEN List([i \in 1..lines |-> PyNone]) ELSE y_maxs,
     _bitmap    |-> Bitmap(width, height)]

m_clear_values(m) ==
    [m EXCEPT !._bitmap = fill(m._bitmap, 0),
              !._buffers = List([i \in 1..Len(m._buffers) |-> clear(m._buffers[i])])]

m_add_point(m, line, x, value) ==
    LET top == m.y_tops[line]
        bottom == m.y_bottoms[line]
        p == push(m._points[line], <<x, row(m._bitmap.height, top, bottom, value)>>)
    IN  IF top # bottom /\ (top = PyNone \/ bottom = PyNone)
        THEN [self |-> m, raised |-> "TypeError"]
        ELSE [self |-> [m EXCEPT !._points[line] = p.self], raised |-> p.raised]

\* the loop of _draw from line i on
RECURSIVE DrawLinesFrom(_, _, _)
DrawLinesFrom(bitmap, points, i) ==
    IF i > Len(points)
    THEN [bitmap |-> bitmap, raised |-> "None"]
    ELSE LET r == draw(bitmap, values(points[i]), i, FALSE)
         IN  IF r.raised # "None" THEN r ELSE DrawLinesFrom(r.bitmap, points, i + 1)

\* _draw without the fill that clears the bitmap
m_draw_no_fill(m) ==
    LET r == DrawLinesFrom(m._bitmap, m._points, 1)
    IN  [self |-> [m EXCEPT !._bitmap = r.bitmap], raised |-> r.raised]

m_draw(m) ==
    LET r == DrawLinesFrom(fill(m._bitmap, 0), m._points, 1)
    IN  [self |-> [m EXCEPT !._bitmap = r.bitmap], raised |-> r.raised]

\* one pass of the inner loop of update_line: the sample at index count
m_plot(m, a_line, xpitch, count, last_value, value) ==
    IF count = 0
    THEN m_add_point(m, a_line, 0, value)
    ELSE LET x == xpos(xpitch, count)
             last_x == xpos(xpitch, count - 1)
             top == N(m.y_tops[a_line])
             bottom == N(m.y_bottoms[a_line])
             v == N(value)
             lv == N(last_value)
         IN  IF m.y_tops[a_line] = PyNone \/ m.y_bottoms[a_line] = PyNone
             THEN [self |-> m, raised |-> "TypeError"]
             ELSE IF both_in_range(bottom, top, lv, v)
             THEN m_add_point(m, a_line, x, value)
             ELSE IF same_side_out(bottom, top, lv, v)
             THEN [self |-> m, raised |-> "None"]
             ELSE LET xint_bottom == _xintercept(last_x, lv, x, v, bottom)
                      xint_top == _xintercept(last_x, lv, x, v, top)
                  IN  IF xint_bottom.raised # "None"
                      THEN [self |-> m, raised |-> xint_bottom.raised]
                      ELSE IF xint_top.raised # "None"
                      THEN [self |-> m, raised |-> xint_top.raised]
                      ELSE IF xint_bottom.result = PyNone \/ xint_top.result = PyNone
                      THEN [self |-> m, raised |-> "None"]
                      ELSE \* _add_point(l, adj_x, adj_value): l is not defined
                           [self |-> m, raised |-> "NameError"]

\* the inner loop of update_line from the sample at index count on
RECURSIVE MPlotFrom(_, _, _, _, _)
MPlotFrom(m, a_line, xpitch, vals, count) ==
    IF count >= Len(vals)
    THEN [self |-> m, raised |-> "None"]
    ELSE LET r == m_plot(m, a_line, xpitch, count,
                         IF count = 0 THEN PyNone ELSE vals[count], vals[count + 1])
         IN  IF r.raised # "None"
             THEN r
             ELSE MPlotFrom(r.self, a_line, xpitch, vals, count + 1)

\* the outer loop of update_line over the lines of ls, from position k on
RECURSIVE UpdateLinesFrom(_, _, _, _)
UpdateLinesFrom(m, ls, k, redraw) ==
    IF k > Len(ls)
    THEN IF redraw THEN m_draw(m) ELSE [self |-> m, raised |-> "None"]
    ELSE LET a_line == ls[k]
             n_points == len(m._buffers[a_line])
             xpitch == IF m.dyn_xpitch
                       THEN <<m._bitmap.width - 1, n_points - 1>>
                       ELSE m._xpitch
             r == MPlotFrom([m EXCEPT !._points[a_line] = clear(@)], a_line, xpitch,
                            values(m._buffers[a_line]), 0)
         IN  IF n_points < 2
             THEN UpdateLinesFrom(m, ls, k + 1, redraw)
             ELSE IF r.raised # "None"
                  THEN r
                  ELSE UpdateLinesFrom(r.self, ls, k + 1, TRUE)

\* line is None for all lines, or the number <<i>> of one line
update_line(m, line) ==
    UpdateLinesFrom(m, IF line = PyNone THEN List([i \in 1..m._lines |-> i])
                       ELSE <<N(line) + 1>>, 1, FALSE)

\* the body of the loop of add_values for a value that is None, with the
\* value pushed all the same
m_absent_pushes(m, i, update_) ==
    [self   |-> [m EXCEPT !._buffers[i] = push(@, Num(0)).self],
     raised |-> "None"]

\* the body of the loop of add_values for a value that is None
m_absent(m, i, update_) == [self |-> m, raised |-> "None"]

\* the body of the loop of add_values for line i and its value
add_line_value(m, i, value, update_) ==
    IF value = PyNone
    THEN m_absent(m, i, update_)
    ELSE LET top0 == m.y_tops[i]
             bottom0 == m.y_bottoms[i]
             full == len(m._buffers[i]) >= m._max_items
             q == IF full THEN pop(m._buffers[i])
                  ELSE [self |-> m._buffers[i], raised |-> "None", result |-> PyNone]
             rest == values(q.self)
             scan_bottom == full /\ m.y_mins[i] = PyNone /\ q.result = bottom0
             scan_top == full /\ m.y_maxs[i] = PyNone /\ q.result = m.y_tops[i]
             bottom1 == IF scan_bottom /\ rest # <<>> THEN PyMin(rest) ELSE bottom0
             top1 == IF scan_top /\ rest # <<>> THEN PyMax(rest) ELSE top0
             p == push(q.self, value)
             bottom2 == IF m.y_mins[i] # PyNone THEN bottom1
                        ELSE IF ~Truthy(bottom1) THEN value
                        ELSE Num(Min({N(value), N(bottom1)}))
             top2 == IF m.y_maxs[i] # PyNone THEN top1
                     ELSE IF ~Truthy(top1) THEN value
                     ELSE Num(Max({N(value), N(top1)}))
         IN  IF q.raised # "None"
             THEN [self |-> m, raised |-> q.raised]
             ELSE IF (scan_bottom \/ scan_top) /\ rest = <<>>
             THEN [self |-> [m EXCEPT !._buffers[i] = q.self], raised |-> "ValueError"]
             ELSE IF p.raised # "None"
             THEN [self |-> [m EXCEPT !._buffers[i] = q.self], raised |-> p.raised]
             ELSE [self   |-> [m EXCEPT !._buffers[i] = p.self,
                                        !.y_tops[i] = top2,
                                        !.y_bottoms[i] = bottom2],
                   \* self.update(i): MultiSparkline has no method update
                   raised |-> IF update_ THEN "AttributeError" ELSE "None"]

\* the loop of add_values from position i of the list on
RECURSIVE AddValuesFrom(_, _, _, _)
AddValuesFrom(m, vals, i, update_) ==
    IF i > Len(vals)
    THEN [self |-> m, raised |-> "None"]
    ELSE IF vals[i] # PyNone /\ i > m._lines
    THEN [self |-> m, raised |-> "IndexError"]
    ELSE LET r == add_line_value(m, i, vals[i], update_)
         IN  IF r.raised # "None" THEN r ELSE AddValuesFrom(r.self, vals, i + 1, update_)

add_values(m, vals, update_) == AddValuesFrom(m, vals, 1, update_)

----------------------------------------------------------------------------
(* A Sparkline, or a MultiSparkline, driven through its public methods *)

\* the last n elements of a sequence
LastN(q, n) == IF Len(q) <= n THEN q ELSE SubSeq(q, Len(q) - n + 1, Len(q))

\* every pairing of auto and fixed bounds with a dynamic pitch, and auto
\* bounds with a fixed pitch
SparkConfigs ==
    {Sparkline(MaxWidth, MaxHeight, max_items, TRUE, y_min, y_max) :
        max_items \in 2..MaxItems,
        y_min \in {PyNone, Num(FixedMin)}, y_max \in {PyNone, Num(FixedMax)}}
    \cup {Sparkline(MaxWidth, MaxHeight, max_items, FALSE, PyNone, PyNone) :
              max_items \in 2..MaxItems}

\* all bounds auto, or the first line with a fixed y_min and the last line
\* with a fixed y_max
MultiConfigs ==
    UNION {{MultiSparkline(MaxWidth, MaxHeight, max_items, lines, TRUE, PyNone, PyNone),
            MultiSparkline(MaxWidth, MaxHeight, max_items, lines, TRUE,
                List([i \in 1..lines |-> IF i = 1 THEN Num(FixedMin) ELSE PyNone]),
                List([i \in 1..lines |-> IF i = lines THEN Num(FixedMax) ELSE PyNone]))} :
           max_items \in MultiItems, lines \in MultiLines}

\* the lists add_values is given: one entry per line or fewer
MultiInputs(lines) ==
    UNION {{List(vals) :
               vals \in {f \in [1..n -> {PyNone} \cup {Num(v) : v \in FirstSamples \cup OtherSamples}] :
                            \A i \in 2..n : f[i] \in {PyNone} \cup {Num(v) : v \in OtherSamples}}} :
           n \in 0..lines}

SparkInit ==
    /\ spark \in SparkConfigs
    /\ hist = <<>>
    /\ call = [op |-> "init", value |-> PyNone, raised |-> "None"]
    /\ multi = PyNone /\ mcall = Idle

MultiInit ==
    /\ multi \in MultiConfigs
    /\ mcall = [op |-> "init", given |-> {}, update |-> FALSE, raised |-> "None"]
    /\ spark = PyNone /\ hist = <<>> /\ call = Idle

Init ==
    /\ SparkInit \/ MultiInit
    /\ cbuf = PyNone /\ fifo = <<>> /\ ret = Idle
    /\ proj = Idle
    /\ clip = Idle /\ twin = PyNone /\ ras = Idle /\ rect = Idle

AddValueOf(values_) ==
    /\ call.op # "idle"
    /\ \E value \in values_, update_ \in BOOLEAN :
           LET r == add_value(spark, value, update_)
           IN  /\ spark' = r.self
               /\ hist' = IF value = PyNone THEN hist
                          ELSE LastN(Append(hist, value), spark._max_items)
               /\ call' = [op |-> "add_value", value |-> value, raised |-> r.raised]
    /\ UNCHANGED <<cbuf, fifo, ret, multi, mcall, proj, clip, twin, ras, rect>>

AddValue == AddValueOf({PyNone} \cup {Num(v) : v \in Samples})

Update ==
    /\ call.op # "idle"
    /\ LET r == update(spark)
       IN  /\ spark' = r.self
           /\ call' = [op |-> "update", value |-> PyNone, raised |-> r.raised]
    /\ UNCHANGED <<cbuf, fifo, ret, hist, multi, mcall, proj, clip, twin, ras, rect>>

ClearValues ==
    /\ call.op # "idle"
    /\ spark' = clear_values(spark)
    /\ hist' = <<>>
    /\ call' = [op |-> "clear_values", value |-> PyNone, raised |-> "None"]
    /\ UNCHANGED <<cbuf, fifo, ret, multi, mcall, proj, clip, twin, ras, rect>>

AddValues ==
    /\ mcall.op # "idle"
    /\ \E vals \in MultiInputs(multi._lines), update_ \in BOOLEAN :
           LET r == add_values(multi, vals, update_)
           IN  /\ multi' = r.self
               /\ mcall' = [op |-> "add_values",
                            given |-> {i \in 1..Len(vals) : vals[i] # PyNone},
                            update |-> update_, raised |-> r.raised]
    /\ UNCHANGED <<cbuf, fifo, ret, spark, hist, call, proj, clip, twin, ras, rect>>

UpdateLine ==
    /\ mcall.op # "idle"
    /\ \E line \in {PyNone} \cup {Num(i) : i \in 0..(multi._lines - 1)} :
           LET r == update_line(multi, line)
           IN  /\ multi' = r.self
               /\ mcall' = [op |-> "update_line",
                            given |-> IF line = PyNone THEN 1..multi._lines
                                      ELSE {N(line) + 1},
                            update |-> FALSE, raised |-> r.raised]
    /\ UNCHANGED <<cbuf, fifo, ret, spark, hist, call, proj, clip, twin, ras, rect>>

MultiClearValues ==
    /\ mcall.op # "idle"
    /\ multi' = m_clear_values(multi)
    /\ mcall' = [op |-> "clear_values", given |-> {}, update |-> FALSE, raised |-> "None"]
    /\ UNCHANGED <<cbuf, fifo, ret, spark, hist, call, proj, clip, twin, ras, rect>>

Next ==
    \/ AddValue \/ Update \/ ClearValues
    \/ AddValues \/ UpdateLine \/ MultiClearValues

Spec == Init /\ [][Next]_vars

----------------------------------------------------------------------------
(* _add_point on its own, on a series with given bounds and height, and the *)
(* scenario of a 10 x 5 sparkline with the fixed range 0..10                *)

ScenarioSamples == {0, 10, 15}

ProjValues == (0 - MaxProjValue)..MaxProjValue

ProjInit ==
    /\ proj \in {[op |-> "init", height |-> h, y_top |-> Num(t), y_bottom |-> Num(b),
                  value |-> Num(v), y |-> PyNone, m_y |-> PyNone] :
                    h \in 1..MaxProjHeight, t \in ProjValues, b \in ProjValues,
                    v \in ProjValues}
    /\ spark = PyNone /\ hist = <<>> /\ call = Idle

ScenarioInit ==
    /\ spark = Sparkline(10, 5, 2, TRUE, Num(0), Num(10))
    /\ hist = <<>>
    /\ call = [op |-> "init", value |-> PyNone, raised |-> "None"]
    /\ proj = Idle

InitProj ==
    /\ ProjInit \/ ScenarioInit
    /\ cbuf = PyNone /\ fifo = <<>> /\ ret = Idle
    /\ multi = PyNone /\ mcall = Idle
    /\ clip = Idle /\ twin = PyNone /\ ras = Idle /\ rect = Idle

\* the point is added to an empty point list and its row is read back
Project ==
    /\ proj.op = "init"
    /\ LET s == Sparkline(1, proj.height, 2, TRUE, proj.y_bottom, proj.y_top)
           m == MultiSparkline(1, proj.height, 2, 1, TRUE,
                               <<proj.y_bottom>>, <<proj.y_top>>)
           sp == _add_point(s, 0, proj.value).self._points
           mp == values(m_add_point(m, 1, 0, proj.value).self._points[1])
       IN  proj' = [op |-> "_add_point", height |-> proj.height,
                    y_top |-> proj.y_top, y_bottom |-> proj.y_bottom,
                    value |-> proj.value,
                    y |-> Num(sp[1][2]), m_y |-> Num(mp[1][2])]
    /\ UNCHANGED <<cbuf, fifo, ret, spark, hist, call, multi, mcall, clip, twin, ras, rect>>

ScenarioAddValue == AddValueOf({Num(v) : v \in ScenarioSamples})

NextProj == Project \/ ScenarioAddValue \/ Update

SpecProj == InitProj /\ [][NextProj]_vars

----------------------------------------------------------------------------
(* One pass of the loop of update, and of the inner loop of update_line, on *)
(* its own: the pair (last_value, value) at index count of n_points samples *)
(* on a series with fixed bounds                                            *)

MaxClipWidth == 4   \* widths 1..MaxClipWidth
MaxClipPoints == 3  \* n_points in 2..MaxClipPoints
ClipBottom == 0     \* y_min
MaxClipTop == 2     \* y_max in ClipBottom..MaxClipTop

ClipValues == (0 - 2)..4

ClipInit ==
    /\ clip \in {[op |-> "init", width |-> w, n_points |-> n, count |-> c,
                  y_bottom |-> Num(ClipBottom), y_top |-> Num(t),
                  last_value |-> Num(lv), value |-> Num(v)] :
                    w \in 1..MaxClipWidth, n \in 2..MaxClipPoints,
                    c \in 1..(MaxClipPoints - 1), t \in ClipBottom..MaxClipTop,
                    lv \in ClipValues, v \in ClipValues}
    /\ clip.count < clip.n_points
    /\ cbuf = PyNone /\ fifo = <<>> /\ ret = Idle
    /\ spark = PyNone /\ hist = <<>> /\ call = Idle
    /\ multi = PyNone /\ mcall = Idle
    /\ proj = Idle /\ twin = PyNone /\ ras = Idle /\ rect = Idle

\* the pass is made on an empty point list and the points it adds are read back
Plot ==
    /\ clip.op = "init"
    /\ LET xpitch == <<clip.width - 1, clip.n_points - 1>>
           s == Sparkline(clip.width, MaxHeight, clip.n_points, TRUE,
                          clip.y_bottom, clip.y_top)
           m == MultiSparkline(clip.width, MaxHeight, clip.n_points, 1, TRUE,
                               <<clip.y_bottom>>, <<clip.y_top>>)
           r == plot(s, xpitch, clip.count, clip.last_value, clip.value)
           mr == m_plot(m, 1, xpitch, clip.count, clip.last_value, clip.value)
       IN  clip' = [op |-> "plot", width |-> clip.width, n_points |-> clip.n_points,
                    count |-> clip.count, y_bottom |-> clip.y_bottom,
                    y_top |-> clip.y_top, last_value |-> clip.last_value,
                    value |-> clip.value,
                    points |-> r.self._points, raised |-> r.raised,
                    m_points |-> values(mr.self._points[1]), m_raised |-> mr.raised]
    /\ UNCHANGED <<cbuf, fifo, ret, spark, hist, call, multi, mcall, proj, twin, ras, rect>>

NextClip == Plot

SpecClip == ClipInit /\ [][NextClip]_vars

----------------------------------------------------------------------------
(* Two Sparklines built alike and given the same samples: spark with        *)
(* update=True on every call, twin with update=False                        *)

DeferConfigs ==
    {Sparkline(width, MaxHeight, max_items, TRUE, y_min, y_max) :
        width \in {1, MaxWidth}, max_items \in 2..MaxItems,
        y_min \in {PyNone, Num(FixedMin)}, y_max \in {PyNone, Num(FixedMax)}}
    \cup {Sparkline(MaxWidth, MaxHeight, max_items, FALSE, PyNone, PyNone) :
              max_items \in 2..MaxItems}

DeferInit ==
    /\ spark \in DeferConfigs
    /\ twin = spark
    /\ hist = <<>>
    /\ call = [op |-> "init", value |-> PyNone, raised |-> "None"]
    /\ cbuf = PyNone /\ fifo = <<>> /\ ret = Idle
    /\ multi = PyNone /\ mcall = Idle
    /\ proj = Idle /\ clip = Idle /\ ras = Idle /\ rect = Idle

AddBoth ==
    /\ \E value \in {Num(v) : v \in Samples} :
           LET r == add_value(spark, value, TRUE)
               d == add_value(twin, value, FALSE)
           IN  /\ spark' = r.self
               /\ twin' = d.self
               /\ hist' = LastN(Append(hist, value), spark._max_items)
               /\ call' = [op |-> "add_value", value |-> value, raised |-> r.raised]
    /\ UNCHANGED <<cbuf, fifo, ret, multi, mcall, proj, clip, ras, rect>>

NextDefer == AddBoth

SpecDefer == DeferInit /\ [][NextDefer]_vars

----------------------------------------------------------------------------
(* Polygon._line_on on its own: a line between two points of a blank        *)
(* bitmap, drawn from p to q and, on another blank bitmap, from q to p       *)

MaxRas == 3   \* the bitmap has the columns and rows 0..MaxRas

RasPoints == (0..MaxRas) \X (0..MaxRas)

RasInit ==
    /\ ras \in {[op |-> "init", p |-> p, q |-> q] : p \in RasPoints, q \in RasPoints}
    /\ cbuf = PyNone /\ fifo = <<>> /\ ret = Idle
    /\ spark = PyNone /\ hist = <<>> /\ call = Idle
    /\ multi = PyNone /\ mcall = Idle
    /\ proj = Idle /\ clip = Idle /\ twin = PyNone /\ rect = Idle

\* the pixels of a bitmap that hold the colour index color
Lit(bitmap, color) == {c \in DOMAIN bitmap.px : bitmap.px[c] = color}

LineOn ==
    /\ ras.op = "init"
    /\ LET blank == Bitmap(MaxRas + 1, MaxRas + 1)
           f == line_on(blank, ras.p, ras.q, LINE_COLOR)
           b == line_on(blank, ras.q, ras.p, LINE_COLOR)
       IN  ras' = [op |-> "_line_on", p |-> ras.p, q |-> ras.q,
                   set |-> Lit(f.bitmap, LINE_COLOR), raised |-> f.raised,
                   back_set |-> Lit(b.bitmap, LINE_COLOR), back_raised |-> b.raised]
    /\ UNCHANGED <<cbuf, fifo, ret, spark, hist, call, multi, mcall, proj, clip, twin, rect>>

NextLine == LineOn

SpecLine == RasInit /\ [][NextLine]_vars

----------------------------------------------------------------------------
(* class SimpleRoundRect: the radius and the boundary of the rows of the    *)
(* upper corners                                                            *)

\* round(n / 2): Python rounds a half to the even neighbour
round_half(n) ==
    LET k == n \div 2
    IN  IF n % 2 = 0 THEN k ELSE IF k % 2 = 0 THEN k ELSE k + 1

\* int(math.sqrt(m)) for m >= 0, rounded up instead of down
int_sqrt_up(m) == CHOOSE r \in 0..m : r * r >= m /\ (r = 0 \/ (r - 1) * (r - 1) < m)

\* int(math.sqrt(m)) for m >= 0
int_sqrt(m) == CHOOSE r \in 0..m : r * r <= m /\ m < (r + 1) * (r + 1)

\* displayio.Shape(width, height, mirror_x=..., mirror_y=...): every row
\* starts as the full row
Shape(width, height, mirror_x, mirror_y) ==
    [width    |-> width,
     height   |-> height,
     mirror_x |-> mirror_x,
     mirror_y |-> mirror_y,
     rows     |-> [y \in 0..(height - 1) |-> <<0, width - 1>>]]

\* shape.set_boundary(y, start_x, end_x)
set_boundary(shape, y, start_x, end_x) ==
    [shape EXCEPT !.rows[y] = <<start_x, end_x>>]

\* the span that the shape shows on row y: with mirror_y the rows of the
\* lower half show the boundary of the mirrored row of the upper half
shown_span(shape, y) ==
    LET half_height == (shape.height \div 2) + (shape.height % 2)
    IN  IF shape.mirror_y /\ y >= half_height
        THEN shape.rows[shape.height - 1 - y]
        ELSE shape.rows[y]

\* the calls of set_boundary of the loop, the first n of them
RECURSIVE SetBoundaries(_, _, _)
SetBoundaries(shape, calls, n) ==
    IF n = 0 THEN shape
    ELSE set_boundary(SetBoundaries(shape, calls, n - 1),
                      calls[n][1], calls[n][2], calls[n][3])

SimpleRoundRect(width, height, radius) ==
    LET r == Min({radius, round_half(width), round_half(height)})
        rsqrd == r * r
        left_indent(row_offset) ==
            r - int_sqrt(rsqrd - (row_offset - r) * (row_offset - r))
        \* set_boundary(row_offset, left_indent, right_indent) for each row
        calls == List([k \in 1..r |->
                          <<k - 1, left_indent(k - 1),
                            width - left_indent(k - 1) - 1>>])
    IN  [class     |-> "SimpleRoundRect",
         _radius   |-> r,
         _width    |-> width,
         _height   |-> height,
         _boundary |-> calls,
         _shape    |-> SetBoundaries(Shape(width, height, FALSE, TRUE),
                                     calls, r)]

MaxRectDim == 7     \* widths and heights 1..MaxRectDim
MaxRadius == 4      \* requested radii 0..MaxRadius

RectInit ==
    /\ rect \in {[op |-> "init", width |-> w, height |-> h, radius |-> r] :
                    w \in 1..MaxRectDim, h \in 1..MaxRectDim, r \in 0..MaxRadius}
    /\ cbuf = PyNone /\ fifo = <<>> /\ ret = Idle
    /\ spark = PyNone /\ hist = <<>> /\ call = Idle
    /\ multi = PyNone /\ mcall = Idle
    /\ proj = Idle /\ clip = Idle /\ twin = PyNone /\ ras = Idle

Construct ==
    /\ rect.op = "init"
    /\ rect' = [op |-> "__init__", width |-> rect.width, height |-> rect.height,
                radius |-> rect.radius,
                self |-> SimpleRoundRect(rect.width, rect.height, rect.radius)]
    /\ UNCHANGED <<cbuf, fifo, ret, spark, hist, call, multi, mcall, proj, clip, twin, ras>>

NextRect == Construct

SpecRect == RectInit /\ [][NextRect]_vars

----------------------------------------------------------------------------
(* The x of the points of a Sparkline that is filled sample by sample and   *)
(* redrawn: both pitch modes, narrow and wide bitmaps                       *)

MaxPitchWidth == 16     \* widths 1, 2, 3 and MaxPitchWidth
MaxPitchItems == 12     \* max_items 2, 3 and MaxPitchItems
PitchSample == 1        \* the sample that is added each time

PitchConfigs ==
    {Sparkline(width, MaxHeight, max_items, dyn_xpitch, PyNone, PyNone) :
         width \in {1, 2, 3, MaxPitchWidth},
         max_items \in {2, 3, MaxPitchItems},
         dyn_xpitch \in BOOLEAN}

PitchInit ==
    /\ spark \in PitchConfigs
    /\ hist = <<>>
    /\ call = [op |-> "init", value |-> PyNone, raised |-> "None"]
    /\ multi = PyNone /\ mcall = Idle
    /\ cbuf = PyNone /\ fifo = <<>> /\ ret = Idle
    /\ proj = Idle /\ clip = Idle /\ twin = PyNone /\ ras = Idle /\ rect = Idle

\* add_value(PitchSample, update=False); one call past the full list shows
\* the scrolling
PitchAdd ==
    /\ Len(hist) <= spark._max_items
    /\ LET r == add_value(spark, Num(PitchSample), FALSE)
       IN  /\ spark' = r.self
           /\ hist' = Append(hist, Num(PitchSample))
           /\ call' = [op |-> "add_value", value |-> Num(PitchSample),
                       raised |-> r.raised]
    /\ UNCHANGED <<cbuf, fifo, ret, multi, mcall, proj, clip, twin, ras, rect>>

PitchUpdate ==
    /\ call.op = "add_value"
    /\ LET r == update(spark)
       IN  /\ spark' = r.self
           /\ call' = [op |-> "update", value |-> PyNone, raised |-> r.raised]
    /\ UNCHANGED <<cbuf, fifo, ret, hist, multi, mcall, proj, clip, twin, ras, rect>>

NextPitch == PitchAdd \/ PitchUpdate

SpecPitch == PitchInit /\ [][NextPitch]_vars

----------------------------------------------------------------------------
(* A Sparkline of one sample or more, driven through add_value, update and  *)
(* clear_values, with the update flag of add_value on record                *)

MaxCountItems == 3      \* max_items 1..MaxCountItems
CountWidth == 2         \* the bitmap is CountWidth x CountWidth
CountSamples == {1, 2}

\* every pairing of auto and fixed bounds
CountConfigs ==
    {Sparkline(CountWidth, CountWidth, max_items, TRUE, y_min, y_max) :
        max_items \in 1..MaxCountItems,
        y_min \in {PyNone, Num(FixedMax)}, y_max \in {PyNone, Num(FixedMax + 1)}}

CountInit ==
    /\ spark \in CountConfigs
    /\ hist = <<>>
    /\ call = [op |-> "init", value |-> PyNone, update |-> FALSE, raised |-> "None"]
    /\ multi = PyNone /\ mcall = Idle
    /\ cbuf = PyNone /\ fifo = <<>> /\ ret = Idle
    /\ proj = Idle /\ clip = Idle /\ twin = PyNone /\ ras = Idle /\ rect = Idle

CountAdd ==
    \E value \in {PyNone} \cup {Num(v) : v \in CountSamples}, update_ \in BOOLEAN :
        LET r == add_value(spark, value, update_)
        IN  /\ spark' = r.self
            /\ hist' = IF value = PyNone THEN hist
                       ELSE LastN(Append(hist, value), spark._max_items)
            /\ call' = [op |-> "add_value", value |-> value, update |-> update_,
                        raised |-> r.raised]
            /\ UNCHANGED <<cbuf, fifo, ret, multi, mcall, proj, clip, twin, ras, rect>>

CountUpdate ==
    /\ LET r == update(spark)
       IN  /\ spark' = r.self
           /\ call' = [op |-> "update", value |-> PyNone, update |-> FALSE,
                       raised |-> r.raised]
    /\ UNCHANGED <<cbuf, fifo, ret, hist, multi, mcall, proj, clip, twin, ras, rect>>

CountClear ==
    /\ spark' = clear_values(spark)
    /\ hist' = <<>>
    /\ call' = [op |-> "clear_values", value |-> PyNone, update |-> FALSE,
                raised |-> "None"]
    /\ UNCHANGED <<cbuf, fifo, ret, multi, mcall, proj, clip, twin, ras, rect>>

NextCount == CountAdd \/ CountUpdate \/ CountClear

SpecCount == CountInit /\ [][NextCount]_vars

----------------------------------------------------------------------------
(* Claims about _CyclicBuffer, under SpecBuf *)

\* C1: after any sequence of push, pop and clear calls, wrapped past the end
\* of the backing list or not, values() is the list of the values pushed and
\* not yet popped, oldest first, len() is their number, and a pop that
\* succeeded returned the oldest of them.
C1_ValuesAreTheQueue ==
    ret.op # "idle" =>
        /\ values(cbuf) = fifo
        /\ len(cbuf) = Len(fifo)
        /\ (ret.op = "pop" /\ ret.raised = "None") => ret.result = ret.oldest

\* the values held run past the physical end of a backing list of 3 or more
C1_Wrapped ==
    /\ ret.op = "push" /\ ret.raised = "None"
    /\ Len(cbuf._buffer) >= 3
    /\ cbuf._end > Len(cbuf._buffer)
    /\ len(cbuf) >= 2
    /\ fifo[1] # fifo[2]

\* C2: a push on a full buffer and a pop on an empty buffer raise, and leave
\* _start, _end and the backing list, hence values(), as they were.
C2_FailedCallChangesNothing ==
    [][/\ (ret'.op = "push" /\ len(cbuf) = Len(cbuf._buffer)) =>
              /\ ret'.raised = "RuntimeError"
              /\ cbuf' = cbuf
              /\ values(cbuf') = values(cbuf)
       /\ (ret'.op = "pop" /\ len(cbuf) = 0) =>
              /\ ret'.raised = "RuntimeError"
              /\ cbuf' = cbuf
              /\ values(cbuf') = values(cbuf)]_vars

\* a push has just failed on a full buffer whose values wrap
C2_PushOnFull ==
    /\ ret.op = "push" /\ ret.raised = "RuntimeError"
    /\ len(cbuf) = Len(cbuf._buffer)
    /\ cbuf._start > 0

\* C3: in every state reached by push, pop and clear calls, failed ones
\* included, 0 <= _end - _start <= capacity, 0 <= _start <= capacity - 1 and
\* 0 <= _end <= 2 * capacity - 1.
C3_CursorsInRange ==
    ret.op # "idle" =>
        LET capacity == Len(cbuf._buffer)
        IN  /\ 0 <= cbuf._end - cbuf._start /\ cbuf._end - cbuf._start <= capacity
            /\ 0 <= cbuf._start /\ cbuf._start <= capacity - 1
            /\ 0 <= cbuf._end /\ cbuf._end <= 2 * capacity - 1

\* _end is at its largest, 2 * capacity - 1, after a failed push
C3_EndAtItsLargest ==
    /\ ret.op = "push" /\ ret.raised = "RuntimeError"
    /\ Len(cbuf._buffer) >= 2
    /\ cbuf._end = 2 * Len(cbuf._buffer) - 1

----------------------------------------------------------------------------
(* Claims about Sparkline and MultiSparkline, under Spec *)

Live == call.op # "idle"
MLive == mcall.op # "idle"

\* C4: with max_items = M >= 2, values() is the list of the last min(k, M)
\* samples given since construction or the last clear_values, in call order,
\* and the push of add_value never fails on a full buffer.
C4_SlidingWindow ==
    Live =>
        /\ values(spark._buffer) = hist
        /\ call.raised # "RuntimeError"

\* a full window has slid: the oldest sample was evicted and the values wrap
C4_WindowSlid ==
    /\ Live /\ call.op = "add_value" /\ call.value # PyNone
    /\ spark._buffer._start > 0
    /\ len(spark._buffer) = spark._max_items
    /\ hist[1] # hist[Len(hist)]

\* C5: while the buffer is not empty, an auto y_bottom is min(values()) and
\* an auto y_top is max(values()), for a Sparkline and for each line of a
\* MultiSparkline.
C5_AutoBoundsAreMinMax ==
    /\ (Live /\ len(spark._buffer) > 0) =>
           /\ spark.y_min = PyNone => spark.y_bottom = PyMin(values(spark._buffer))
           /\ spark.y_max = PyNone => spark.y_top = PyMax(values(spark._buffer))
    /\ MLive =>
           \A i \in 1..multi._lines :
               len(multi._buffers[i]) > 0 =>
                   /\ multi.y_mins[i] = PyNone =>
                          multi.y_bottoms[i] = PyMin(values(multi._buffers[i]))
                   /\ multi.y_maxs[i] = PyNone =>
                          multi.y_tops[i] = PyMax(values(multi._buffers[i]))

AllPixelsZero(bitmap) == \A c \in DOMAIN bitmap.px : bitmap.px[c] = 0

\* C6: right after clear_values, values() is empty, every pixel is 0 and
\* every auto bound is None.
C6_ClearResets ==
    /\ (Live /\ call.op = "clear_values") =>
           /\ values(spark._buffer) = <<>>
           /\ AllPixelsZero(spark._bitmap)
           /\ spark.y_min = PyNone => spark.y_bottom = PyNone
           /\ spark.y_max = PyNone => spark.y_top = PyNone
    /\ (MLive /\ mcall.op = "clear_values") =>
           /\ \A i \in 1..multi._lines : values(multi._buffers[i]) = <<>>
           /\ AllPixelsZero(multi._bitmap)
           /\ \A i \in 1..multi._lines :
                  /\ multi.y_mins[i] = PyNone => multi.y_bottoms[i] = PyNone
                  /\ multi.y_maxs[i] = PyNone => multi.y_tops[i] = PyNone

\* C7: add_value(None, update) leaves the whole Sparkline as it was (buffer
\* and cursors, bounds, point list, bitmap); add_values leaves the buffer and
\* the bounds of every line whose entry is None or missing as they were.
C7_AbsentSampleChangesNothing ==
    [][/\ (call'.op = "add_value" /\ call'.value = PyNone) => spark' = spark
       /\ mcall'.op = "add_values" =>
              \A i \in (1..multi._lines) \ mcall'.given :
                  /\ multi'._buffers[i] = multi._buffers[i]
                  /\ multi'.y_bottoms[i] = multi.y_bottoms[i]
                  /\ multi'.y_tops[i] = multi.y_tops[i]]_vars

\* None was just added to a Sparkline whose point list is out of date
C7_AbsentAfterDeferredRedraw ==
    /\ Live /\ call.op = "add_value" /\ call.value = PyNone
    /\ len(spark._buffer) >= 2
    /\ update(spark).self # spark

\* C8: y_min, y_max, y_mins and y_maxs are never modified, and a bound that
\* is fixed stays equal to them: y_bottom = y_min and y_top = y_max.
C8_FixedBoundsUntouched ==
    /\ [](/\ Live => /\ spark.y_min # PyNone => spark.y_bottom = spark.y_min
                     /\ spark.y_max # PyNone => spark.y_top = spark.y_max
          /\ MLive => \A i \in 1..multi._lines :
                          /\ multi.y_mins[i] # PyNone =>
                                 multi.y_bottoms[i] = multi.y_mins[i]
                          /\ multi.y_maxs[i] # PyNone =>
                                 multi.y_tops[i] = multi.y_maxs[i])
    /\ [][/\ Live => (spark'.y_min = spark.y_min /\ spark'.y_max = spark.y_max)
          /\ MLive => (multi'.y_mins = multi.y_mins /\ multi'.y_maxs = multi.y_maxs)]_vars

\* a series with both bounds fixed holds, after an eviction, a sample under
\* y_min, and its largest sample is not y_max
C8_FixedRangeOverrun ==
    /\ Live /\ call.op = "add_value"
    /\ spark.y_min # PyNone /\ spark.y_max # PyNone
    /\ spark._buffer._start > 0
    /\ N(PyMin(values(spark._buffer))) < N(spark.y_min)
    /\ PyMax(values(spark._buffer)) # spark.y_max

----------------------------------------------------------------------------
(* Claims about the projection of a value to a pixel row, under SpecProj *)

Projected == proj.op = "_add_point"

\* the floor of a / b for b # 0: the integer q with q <= a / b < q + 1
FloorDiv(a, b) ==
    CHOOSE q \in (0 - Abs(a) - 1)..(Abs(a) + 1) :
        IF b > 0 THEN q * b <= a /\ a < (q + 1) * b
                 ELSE q * b >= a /\ a > (q + 1) * b

\* C9 as stated: when y_top = y_bottom, _add_point gives every value the row
\* floor((height - 1) / 2), whatever the height.
C9_MidRowOfHeightMinusOne ==
    (Projected /\ proj.y_top = proj.y_bottom) =>
        /\ N(proj.y) = FloorDiv(proj.height - 1, 2)
        /\ N(proj.m_y) = FloorDiv(proj.height - 1, 2)

\* C9: when y_top = y_bottom, _add_point of Sparkline and of MultiSparkline
\* gives every value the row floor(height / 2), which is a row of the bitmap:
\* floor((height - 1) / 2) for odd heights and one more than that for even
\* heights.
C9_MidRow ==
    (Projected /\ proj.y_top = proj.y_bottom) =>
        /\ N(proj.y) = FloorDiv(proj.height, 2)
        /\ proj.m_y = proj.y
        /\ 0 <= N(proj.y) /\ N(proj.y) <= proj.height - 1
        /\ proj.height % 2 = 1 => N(proj.y) = FloorDiv(proj.height - 1, 2)
        /\ proj.height % 2 = 0 => N(proj.y) = FloorDiv(proj.height - 1, 2) + 1

\* a value other than the bound was projected on an even height
C9_DegenerateOnEvenHeight ==
    /\ Projected /\ proj.y_top = proj.y_bottom
    /\ proj.height = 4
    /\ proj.value # proj.y_top

\* C10 as stated: when y_top # y_bottom, _add_point gives the row
\* floor((height - 1) * (y_top - value) / (y_top - y_bottom)).
C10_RowIsFloor ==
    (Projected /\ proj.y_top # proj.y_bottom) =>
        /\ N(proj.y) = FloorDiv((proj.height - 1) * (N(proj.y_top) - N(proj.value)),
                                N(proj.y_top) - N(proj.y_bottom))
        /\ N(proj.m_y) = FloorDiv((proj.height - 1) * (N(proj.y_top) - N(proj.value)),
                                  N(proj.y_top) - N(proj.y_bottom))

\* C10: when y_top # y_bottom, _add_point gives the quotient
\* (height - 1) * (y_top - value) / (y_top - y_bottom) truncated toward zero:
\* its floor when the quotient is not negative, its ceiling when it is.
\* value = y_top gives row 0, value = y_bottom gives row height - 1, and a
\* value between the bounds gives a row in 0..height - 1.  With width 10,
\* height 5, y_min 0, y_max 10, the samples 0 and 10 give the points (0, 4)
\* and (9, 0).
C10_RowIsTruncation ==
    /\ (Projected /\ proj.y_top # proj.y_bottom) =>
           LET num == (proj.height - 1) * (N(proj.y_top) - N(proj.value))
               den == N(proj.y_top) - N(proj.y_bottom)
               y == N(proj.y)
           IN  /\ proj.m_y = proj.y
               /\ num * den >= 0 => y = FloorDiv(num, den)
               /\ num * den < 0 => y = 0 - FloorDiv(0 - num, den)
               /\ proj.value = proj.y_top => y = 0
               /\ proj.value = proj.y_bottom => y = proj.height - 1
               /\ (\/ N(proj.y_bottom) <= N(proj.value) /\ N(proj.value) <= N(proj.y_top)
                   \/ N(proj.y_top) <= N(proj.value) /\ N(proj.value) <= N(proj.y_bottom))
                      => 0 <= y /\ y <= proj.height - 1
    /\ (Live /\ call.op = "update" /\ call.raised = "None"
             /\ values(spark._buffer) = <<Num(0), Num(10)>>) =>
           spark._points = <<<<0, 4>>, <<9, 0>>>>

\* a value over y_top was projected and the quotient is not an integer
C10_ValueOverTop ==
    /\ Projected /\ N(proj.y_bottom) < N(proj.y_top)
    /\ N(proj.value) > N(proj.y_top)
    /\ ((proj.height - 1) * (N(proj.y_top) - N(proj.value)))
           % (N(proj.y_top) - N(proj.y_bottom)) # 0

----------------------------------------------------------------------------
(* Claims about the clipping of a pair of samples, under SpecClip *)

Plotted == clip.op = "plot"

PairInRange ==
    /\ N(clip.y_bottom) <= N(clip.last_value) /\ N(clip.last_value) <= N(clip.y_top)
    /\ N(clip.y_bottom) <= N(clip.value) /\ N(clip.value) <= N(clip.y_top)

PairAbove == N(clip.last_value) > N(clip.y_top) /\ N(clip.value) > N(clip.y_top)

PairBelow == N(clip.last_value) < N(clip.y_bottom) /\ N(clip.value) < N(clip.y_bottom)

\* the point of the current sample: x = floor(pitch * index), and the row of
\* the sample's own value
OwnPoint ==
    <<FloorDiv((clip.width - 1) * clip.count, clip.n_points - 1),
      row(MaxHeight, clip.y_top, clip.y_bottom, clip.value)>>

\* C11: for a pair of consecutive samples that both lie in [bottom, top],
\* update and update_line emit exactly one point, at x = floor(pitch * index)
\* and at the row of the current sample's own value; for a pair that is
\* above top, or below bottom, with both samples they emit no point.  Neither
\* case raises.
C11_NonCrossingPairs ==
    Plotted =>
        /\ PairInRange =>
               /\ clip.raised = "None" /\ clip.points = <<OwnPoint>>
               /\ clip.m_raised = "None" /\ clip.m_points = <<OwnPoint>>
        /\ (PairAbove \/ PairBelow) =>
               /\ clip.raised = "None" /\ clip.points = <<>>
               /\ clip.m_raised = "None" /\ clip.m_points = <<>>

\* a pair in range, with the current sample on the upper bound and a pitch
\* that is not a whole number of pixels
C11_InRangeOnTheBound ==
    /\ Plotted /\ PairInRange
    /\ clip.value = clip.y_top /\ clip.last_value # clip.value
    /\ ((clip.width - 1) * clip.count) % (clip.n_points - 1) # 0
    /\ clip.points # <<>>

Out(v) == N(v) > N(clip.y_top) \/ N(v) < N(clip.y_bottom)

\* the segment of the pair crosses exactly one bound: one sample is in the
\* range and the other is out of it
CrossesOneBound == Out(clip.last_value) # Out(clip.value)

\* the value of the bound it crosses
CrossedBound ==
    LET out == IF Out(clip.value) THEN clip.value ELSE clip.last_value
    IN  IF N(out) > N(clip.y_top) THEN clip.y_top ELSE clip.y_bottom

\* the two samples of the pair fall in the same pixel column
SameColumn ==
    FloorDiv((clip.width - 1) * clip.count, clip.n_points - 1)
        = FloorDiv((clip.width - 1) * (clip.count - 1), clip.n_points - 1)

\* C12: for a pair of consecutive samples whose segment crosses exactly one
\* bound of [bottom, top], leaving the range or entering it, update and
\* update_line emit exactly one point and its row is the row of the crossed
\* bound's value.  Stated here for the pairs that fall in two pixel columns.
C12_CrossingPinnedToBound ==
    (Plotted /\ CrossesOneBound /\ ~SameColumn) =>
        /\ clip.raised = "None"
        /\ Len(clip.points) = 1
        /\ clip.points[1][2] = row(MaxHeight, clip.y_top, clip.y_bottom, CrossedBound)
        /\ clip.m_raised = "None"
        /\ Len(clip.m_points) = 1
        /\ clip.m_points[1][2] = row(MaxHeight, clip.y_top, clip.y_bottom, CrossedBound)

\* C13: for a pair of consecutive samples in the same pixel column that is
\* neither in range with both samples nor out of range on the same side with
\* both, the pass emits no point and does not raise.
C13_SameColumnDropped ==
    (Plotted /\ SameColumn /\ ~PairInRange /\ ~PairAbove /\ ~PairBelow) =>
        /\ clip.raised = "None"
        /\ clip.points = <<>>

----------------------------------------------------------------------------
(* Claims about the redraw, under Spec *)

\* C14: update on a Sparkline that holds fewer than 2 samples returns and
\* leaves the whole object, point list and bitmap included, as it was;
\* update_line leaves the point list of every line it is asked to update and
\* that holds fewer than 2 samples as it was, and when all the lines it is
\* asked to update hold fewer than 2 samples it returns and leaves the whole
\* object, bitmap included, as it was.
C14_TooFewSamplesBailsOut ==
    [][/\ (call'.op = "update" /\ len(spark._buffer) < 2) =>
              (spark' = spark /\ call'.raised = "None")
       /\ mcall'.op = "update_line" =>
              /\ \A i \in mcall'.given :
                     len(multi._buffers[i]) < 2 => multi'._points[i] = multi._points[i]
              /\ (\A i \in mcall'.given : len(multi._buffers[i]) < 2) =>
                     (multi' = multi /\ mcall'.raised = "None")]_vars

\* update_line was called for a line with fewer than 2 samples while the
\* bitmap shows the rendering of another line
C14_PriorRenderingStays ==
    /\ MLive /\ mcall.op = "update_line" /\ mcall.given = {2}
    /\ len(multi._buffers[2]) < 2
    /\ ~AllPixelsZero(multi._bitmap)

----------------------------------------------------------------------------
(* Claims about the deferred redraw, under SpecDefer *)

\* what C15 compares: buffer, bounds, point list and bitmap
Shown(s) == <<s._buffer, s.y_bottom, s.y_top, s._points, s._bitmap>>

\* C15 as stated: after the same samples, update() on the series that was
\* given them with update=False leaves the buffer, bounds, point list and
\* bitmap of the series that was given them with update=True, and the two
\* single-call relations hold.
C15_DeferredEqualsEager ==
    /\ [](Live => Shown(update(twin).self) = Shown(spark))
    /\ [][/\ twin'._points = twin._points /\ twin'._bitmap = twin._bitmap
          /\ LET d == add_value(spark, call'.value, FALSE)
                 u == update(d.self)
             IN  Shown(spark') = Shown(u.self) /\ call'.raised = u.raised]_vars

\* update_line(i) for the lines of the set ls in index order, from line i on
RECURSIVE UpdateEach(_, _, _)
UpdateEach(m, ls, i) ==
    IF i > m._lines
    THEN [self |-> m, raised |-> "None"]
    ELSE IF i \notin ls
    THEN UpdateEach(m, ls, i + 1)
    ELSE LET r == update_line(m, Num(i - 1))
         IN  IF r.raised # "None" THEN r ELSE UpdateEach(r.self, ls, i + 1)

\* C16: add_values(values, update=True) with a value for at least one line
\* completes without error and leaves what add_values(values, update=False)
\* followed by update_line(i), for the lines i given a value in index order,
\* leaves.
C16_AddValuesRedraws ==
    [][(mcall'.op = "add_values" /\ mcall'.update /\ mcall'.given # {}) =>
           /\ mcall'.raised = "None"
           /\ \E vals \in MultiInputs(multi._lines) :
                  /\ {i \in 1..Len(vals) : vals[i] # PyNone} = mcall'.given
                  /\ multi' = UpdateEach(add_values(multi, vals, FALSE).self,
                                         mcall'.given, 1).self]_vars

\* the pixels of the polyline through the points ps
Polyline(ps) ==
    UNION {Range(LinePixels(ps[k], ps[k + 1])) : k \in 1..(Len(ps) - 1)}

\* the pixels the polyline of line i of the MultiSparkline covers
Covers(i) == Polyline(values(multi._points[i]))

\* update_line has redrawn: it has returned and a line it was asked to
\* update holds 2 samples or more
Redrawn ==
    /\ MLive /\ mcall.op = "update_line" /\ mcall.raised = "None"
    /\ \E i \in mcall.given : len(multi._buffers[i]) >= 2

\* C17: after a redraw by update_line every pixel of the shared bitmap
\* holds the colour index of the highest-numbered line whose polyline covers
\* it (index i + 1 for line i counted from 0), and 0 if no polyline covers it.
C17_HighestLineWins ==
    Redrawn =>
        \A c \in DOMAIN multi._bitmap.px :
            multi._bitmap.px[c] = Max({0} \cup {i \in 1..multi._lines : c \in Covers(i)})

\* after a redraw a pixel is covered by both lines and another by the first
\* line only
C17_LinesOverlap ==
    /\ Redrawn /\ multi._lines = 2
    /\ Covers(1) \cap Covers(2) # {}
    /\ Covers(1) \ Covers(2) # {}

\* C25: every point that update() puts in the point list lies on the bitmap,
\* 0 <= x <= width - 1 and 0 <= y <= height - 1, in every reachable state,
\* fixed bounds with samples outside of them included.
C25_PointsOnTheBitmap ==
    Live =>
        \A k \in 1..Len(spark._points) :
            /\ 0 <= spark._points[k][1]
            /\ spark._points[k][1] <= spark._bitmap.width - 1
            /\ 0 <= spark._points[k][2]
            /\ spark._points[k][2] <= spark._bitmap.height - 1

----------------------------------------------------------------------------
(* Claims about the rasterizer, under SpecLine *)

Drawn == ras.op = "_line_on"

\* C18: for two points p and q of the bitmap, _line_on from p to q and
\* _line_on from q to p both return and set the same set of pixels.
C18_SameSetBothWays ==
    Drawn =>
        /\ ras.raised = "None" /\ ras.back_raised = "None"
        /\ ras.set = ras.back_set

\* a line that is neither horizontal nor vertical was drawn from right to
\* left, as the line from (3, 2) to (0, 0)
C18_DrawnBackwards ==
    /\ Drawn /\ ras.p = <<3, 2>> /\ ras.q = <<0, 0>>
    /\ ras.set # {}

\* C19: _line_on from (x0, y0) to (x1, y1) on the bitmap sets, for a
\* horizontal or vertical line, exactly the run of pixels between the
\* endpoints inclusive; for any other line it sets exactly
\* max(|x1 - x0|, |y1 - y0|) + 1 pixels, exactly one for each coordinate along
\* the major axis, all in the bounding box of the endpoints and both
\* endpoints among them.  No other pixel is set.
C19_Coverage ==
    Drawn =>
        LET x0 == ras.p[1]
            y0 == ras.p[2]
            x1 == ras.q[1]
            y1 == ras.q[2]
            xs == Min({x0, x1})..Max({x0, x1})
            ys == Min({y0, y1})..Max({y0, y1})
            steep == Abs(y1 - y0) > Abs(x1 - x0)
        IN  /\ ras.raised = "None"
            /\ (x0 = x1 \/ y0 = y1) => ras.set = xs \X ys
            /\ (x0 # x1 /\ y0 # y1) =>
                   /\ Cardinality(ras.set) = Max({Abs(x1 - x0), Abs(y1 - y0)}) + 1
                   /\ ras.set \subseteq xs \X ys
                   /\ ras.p \in ras.set /\ ras.q \in ras.set
                   /\ IF steep
                      THEN \A y \in ys : Cardinality({c \in ras.set : c[2] = y}) = 1
                      ELSE \A x \in xs : Cardinality({c \in ras.set : c[1] = x}) = 1

\* a steep line that is not a diagonal was drawn
C19_SteepLine ==
    /\ Drawn
    /\ Abs(ras.q[2] - ras.p[2]) > Abs(ras.q[1] - ras.p[1])
    /\ ras.q[1] # ras.p[1]
    /\ Cardinality(ras.set) = Abs(ras.q[2] - ras.p[2]) + 1

----------------------------------------------------------------------------
(* Claims about SimpleRoundRect, under SpecRect *)

Constructed == rect.op = "__init__"

\* C20: the stored radius is min(requested, limit) for a limit of at most
\* min(width, height) / 2, so that 2 * radius <= min(width, height), for odd
\* and even widths and heights.
C20_RadiusClamped ==
    Constructed =>
        /\ 2 * rect.self._radius <= Min({rect.width, rect.height})
        /\ \E limit \in 0..MaxRectDim :
               /\ 2 * limit <= Min({rect.width, rect.height})
               /\ rect.self._radius = Min({rect.radius, limit})

\* floor(sqrt(m)), by counting the positive integers whose square is at most m
FloorSqrt(m) == Cardinality({k \in 1..m : k * k <= m})

Indent(o) == rect.self._boundary[o + 1][2]

\* C21: for the clamped radius r and each row offset o in 0..r-1 the boundary
\* set for row o is left_indent = r - floor(sqrt(r^2 - (o - r)^2)) and
\* right_indent = width - left_indent - 1; row 0 has the largest indent, the
\* indent does not increase with o, row r-1 has the smallest one, and rows o
\* and height-1-o both show that boundary, so that the mask is the same from
\* the top and from the bottom.
C21_RowBoundaries ==
    Constructed =>
        LET r == rect.self._radius
            shape == rect.self._shape
        IN  /\ Len(rect.self._boundary) = r
            /\ \A o \in 0..(r - 1) :
                   /\ rect.self._boundary[o + 1][1] = o
                   /\ Indent(o) = r - FloorSqrt(r * r - (o - r) * (o - r))
                   /\ rect.self._boundary[o + 1][3] = rect.width - Indent(o) - 1
                   /\ Indent(0) >= Indent(o)
                   /\ Indent(r - 1) <= Indent(o)
                   /\ o + 1 <= r - 1 => Indent(o) >= Indent(o + 1)
                   /\ shown_span(shape, o)
                        = <<Indent(o), rect.width - Indent(o) - 1>>
                   /\ shown_span(shape, rect.height - 1 - o)
                        = <<Indent(o), rect.width - Indent(o) - 1>>
            /\ \A y \in 0..(rect.height - 1) :
                   shown_span(shape, y) = shown_span(shape, rect.height - 1 - y)

\* a corner of radius 4 on an odd height: the indents fall from 4 to 1
C21_FourRows ==
    /\ Constructed
    /\ rect.self._radius = 4
    /\ rect.height % 2 = 1
    /\ Indent(0) = 4 /\ Indent(1) = 2 /\ Indent(3) = 1
    /\ shown_span(rect.self._shape, rect.height - 1) = <<4, rect.width - 5>>

\* C27: every row boundary that SimpleRoundRect sets is a non-empty span
\* inside the rectangle: 0 <= left_indent <= right_indent <= width - 1 for
\* each row offset below the clamped radius.
C27_SpansNotEmpty ==
    Constructed =>
        \A k \in 1..Len(rect.self._boundary) :
            /\ 0 <= rect.self._boundary[k][2]
            /\ rect.self._boundary[k][2] <= rect.self._boundary[k][3]
            /\ rect.self._boundary[k][3] <= rect.width - 1

----------------------------------------------------------------------------
(* Claims about the x of the points, under SpecPitch *)

\* update() has redrawn a series of at least two samples
Updated ==
    /\ call.op = "update" /\ call.raised = "None"
    /\ len(spark._buffer) >= 2

PointX(k) == spark._points[k][1]

SpansTheWidth ==
    (Updated /\ spark.dyn_xpitch) =>
        /\ PointX(1) = 0
        /\ PointX(Len(spark._points)) = spark._bitmap.width - 1

FixedPitchX ==
    (Updated /\ ~spark.dyn_xpitch) =>
        \A k \in 1..Len(spark._points) :
            PointX(k) = FloorDiv((k - 1) * (spark._bitmap.width - 1),
                                 spark._max_items - 1)

\* (a bitmap of width 1 has x = width - 1 from the first point on)
FixedPitchReachesTheEnd ==
    (Updated /\ ~spark.dyn_xpitch /\ spark._bitmap.width > 1) =>
        ((\E k \in 1..Len(spark._points) : PointX(k) = spark._bitmap.width - 1)
            <=> len(spark._buffer) = spark._max_items)

XNeverDecreases ==
    Updated => \A k \in 1..(Len(spark._points) - 1) : PointX(k) <= PointX(k + 1)

OnePointPerSample == Updated => Len(spark._points) = len(spark._buffer)

\* C22: after update() of at least two samples, with dyn_xpitch the first point
\* is at x = 0 and the point of the newest sample at x = width - 1; without it
\* the sample of index k is at x = floor(k * (width - 1) / (max_items - 1)), and
\* x = width - 1 is reached exactly when max_items samples are buffered; in
\* both modes x never decreases along the point list.
C22_HorizontalPlacement ==
    /\ SpansTheWidth
    /\ FixedPitchX
    /\ FixedPitchReachesTheEnd
    /\ XNeverDecreases

----------------------------------------------------------------------------
(* Further claims about Sparkline and MultiSparkline, under Spec *)

\* C23: data cleared by clear_values never reappears: a line that has
\* received no sample since construction or the last clear_values (its buffer
\* is empty) has no pixel of its colour on the bitmap, whatever add_values and
\* update_line calls came after the clear.
C23_ClearedDataStaysGone ==
    MLive =>
        \A i \in 1..multi._lines :
            len(multi._buffers[i]) = 0 =>
                \A c \in DOMAIN multi._bitmap.px : multi._bitmap.px[c] # i

----------------------------------------------------------------------------
(* Claims about the sample count of a Sparkline, under SpecCount *)

Count == len(spark._buffer)

\* the count after a step, given the count before it
CountStep ==
    LET n == len(spark._buffer)
    IN  IF call'.op = "clear_values" THEN Count' = 0
        ELSE IF call'.op = "add_value" /\ call'.value # PyNone
        THEN Count' = IF n < spark._max_items THEN n + 1 ELSE spark._max_items
        ELSE Count' = n

\* C24: the count is 0 after construction and after clear_values; add_value
\* of a sample raises it by exactly one below max_items and leaves it at
\* max_items once there; nothing but clear_values lowers it, so that a series
\* of two samples or more keeps two or more until clear_values.
C24_CountDrivesTheState ==
    /\ [](call.op = "init" => Count = 0)
    /\ [][CountStep]_vars
    /\ [][(Count >= 2 /\ call'.op # "clear_values") => Count' >= 2]_vars

\* C26: add_value(v, update=False) with a numeric v never fails, for every
\* max_items >= 1 and every pairing of auto and fixed bounds: the rescan after
\* an eviction is taken over a list that is not empty.
C26_DeferredAddNeverFails ==
    (call.op = "add_value" /\ call.value # PyNone /\ ~call.update) =>
        call.raised = "None"

====
